---- MODULE Spec2Model ----
(***************************************************************************)
(* A model of sudoku.c: the Board/Masks constraint state, the MRV search   *)
(* (solve_rec, count_rec), the complete-grid generator, the puzzle carver  *)
(* make_puzzle and the interactive command loop of main.                   *)
(***************************************************************************)
EXTENDS Integers, Sequences, FiniteSets, TLC

N == 9
BOX == 3

Idx == 0 .. (N - 1)

\* The function f itself, held as a table of its values (an array) rather
\* than as a rule that is evaluated again at each use.
Tab(f) == f @@ f

\* A 9x9 array of the values b[r][c]
Grid(b) == Tab([r \in Idx |-> Tab([c \in Idx |-> b[r][c]])])

(* --------------------------- bitsets ----------------------------------- *)
(* An unsigned word used as a bitset is the set of the positions of its    *)
(* one bits: x|y is the union, x&~y the difference, and two words are      *)
(* equal bit for bit iff the sets are equal.                               *)

\* ALL == ((1<<9)-1): bits 0..8
ALL == 0 .. 8

\* 1u << (v-1)
Bit(v) == {v - 1}

popcount9(x) == Cardinality(x)

\* __builtin_ctz: the position of the lowest one bit of a nonzero word
lsb_index(x) == CHOOSE k \in x : \A j \in x : k <= j

\* cand & -cand : the lowest one bit of a nonzero word
LowBit(x) == {lsb_index(x)}

(* ------------------------- Board and Masks ----------------------------- *)

box_index(r, c) == (r \div BOX) * BOX + (c \div BOX)

\* m->row[r] |= bit; m->col[c] |= bit; m->box[box_index(r,c)] |= bit
MaskOr(m, r, c, bit) ==
    [row |-> [m.row EXCEPT ![r] = @ \cup bit],
     col |-> [m.col EXCEPT ![c] = @ \cup bit],
     box |-> [m.box EXCEPT ![box_index(r, c)] = @ \cup bit]]

\* MaskAndNot, forgetting the box mask
MaskAndNot_no_box(m, r, c, bit) ==
    [row |-> [m.row EXCEPT ![r] = @ \ bit],
     col |-> [m.col EXCEPT ![c] = @ \ bit],
     box |-> m.box]

\* m->row[r] &= ~bit; m->col[c] &= ~bit; m->box[box_index(r,c)] &= ~bit
MaskAndNot(m, r, c, bit) ==
    [row |-> [m.row EXCEPT ![r] = @ \ bit],
     col |-> [m.col EXCEPT ![c] = @ \ bit],
     box |-> [m.box EXCEPT ![box_index(r, c)] = @ \ bit]]

\* masks_init: all masks zero, then every nonzero cell (i,j) ORs its bit into
\* row[i], col[j] and box[box_index(i,j)]
masks_init(b) ==
    [row |-> Tab([i \in Idx |-> UNION {Bit(b[i][j]) : j \in {j \in Idx : b[i][j] # 0}}]),
     col |-> Tab([j \in Idx |-> UNION {Bit(b[i][j]) : i \in {i \in Idx : b[i][j] # 0}}]),
     box |-> Tab([x \in Idx |-> UNION {Bit(b[q[1]][q[2]]) :
                    q \in {q \in Idx \X Idx : box_index(q[1], q[2]) = x /\ b[q[1]][q[2]] # 0}}])]

used_mask(m, r, c) == m.row[r] \cup m.col[c] \cup m.box[box_index(r, c)]

\* (~used_mask(m,r,c)) & ALL
candidates_mask(m, r, c) == ALL \ used_mask(m, r, c)

apply_set(b, m, r, c, v) ==
    [b |-> [b EXCEPT ![r][c] = v], m |-> MaskOr(m, r, c, Bit(v))]

\* apply_clear, emptying the cell but leaving the masks as they are
apply_clear_keeps_masks(b, m, r, c) == [b |-> [b EXCEPT ![r][c] = 0], m |-> m]

apply_clear(b, m, r, c) ==
    LET v == b[r][c]
    IN  IF v = 0 THEN [b |-> b, m |-> m]
        ELSE [b |-> [b EXCEPT ![r][c] = 0], m |-> MaskAndNot(m, r, c, Bit(v))]

(* ------------------------------ is_legal ------------------------------- *)

\* the cells of row r, of column c and of box x, in the order is_legal scans them
RowCells(r) == Tab([k \in 0 .. 8 |-> <<r, k>>])
ColCells(c) == Tab([k \in 0 .. 8 |-> <<k, c>>])
BoxCells(x) == Tab([k \in 0 .. 8 |-> <<(x \div 3) * 3 + (k \div 3), (x % 3) * 3 + (k % 3)>>])

\* one row, column or box: "if(used & bit) return false; used |= bit" fails at
\* the first nonzero cell whose digit an earlier cell of the unit holds
unit_legal(b, cells) ==
    \A k \in 0 .. 8 :
        LET v == b[cells[k][1]][cells[k][2]]
        IN  v = 0 \/ \A j \in 0 .. (k - 1) : b[cells[j][1]][cells[j][2]] # v

is_legal(b) ==
    /\ \A r \in Idx : unit_legal(b, RowCells(r))
    /\ \A c \in Idx : unit_legal(b, ColCells(c))
    /\ \A x \in Idx : unit_legal(b, BoxCells(x))

\* every cell holds a digit
Complete(g) == \A r \in Idx : \A c \in Idx : g[r][c] \in 1 .. 9

(* --------------------------- find_best_cell ---------------------------- *)

\* The scan state of find_best_cell: the best cell so far, and whether the
\* scan has stopped: "dead" (return false), "done" (goto done) or "" (scanning).
ScanStart == [bestCount |-> 10, bestMask |-> {}, bestR |-> -1, bestC |-> -1, stop |-> ""]

\* fbc_cell, passing over a cell without candidates instead of failing
fbc_cell_skips_dead(b, m, r, c, st) ==
    IF b[r][c] # 0 THEN st
    ELSE LET cand == candidates_mask(m, r, c)
             cnt == popcount9(cand)
         IN  IF cnt # 0 /\ cnt < st.bestCount
             THEN [bestCount |-> cnt, bestMask |-> cand, bestR |-> r, bestC |-> c,
                   stop |-> IF cnt = 1 THEN "done" ELSE ""]
             ELSE st

\* the body of the two nested loops, for the cell (r,c)
fbc_cell(b, m, r, c, st) ==
    IF b[r][c] # 0 THEN st
    ELSE LET cand == candidates_mask(m, r, c)
             cnt == popcount9(cand)
         IN  IF cnt = 0 THEN [st EXCEPT !.stop = "dead"]
             ELSE IF cnt < st.bestCount
             THEN [bestCount |-> cnt, bestMask |-> cand, bestR |-> r, bestC |-> c,
                   stop |-> IF cnt = 1 THEN "done" ELSE ""]
             ELSE st

\* the cells lo .. hi-1 of the row-major scan (i = r*N + c), in this order,
\* up to the first cell that stops the scan (the range is halved so that the
\* evaluation nests only logarithmically deep)
RECURSIVE fbc_scan(_, _, _, _, _)
fbc_rest(b, m, left, mid, hi) ==
    IF left.stop # "" THEN left ELSE fbc_scan(b, m, left, mid, hi)

fbc_scan(b, m, st, lo, hi) ==
    IF st.stop # "" \/ lo >= hi THEN st
    ELSE IF hi = lo + 1 THEN fbc_cell(b, m, lo \div N, lo % N, st)
    ELSE fbc_rest(b, m, fbc_scan(b, m, st, lo, (lo + hi) \div 2), (lo + hi) \div 2, hi)

NoChoice == [ok |-> FALSE, r |-> -1, c |-> -1, cand |-> {}]

\* what find_best_cell returns when its scan has ended in the state st
fbc_result(st) ==
    IF st.stop = "dead" THEN NoChoice
    ELSE IF st.bestR = -1 THEN NoChoice
    ELSE [ok |-> TRUE, r |-> st.bestR, c |-> st.bestC, cand |-> st.bestMask]

find_best_cell(b, m) == fbc_result(fbc_scan(b, m, ScanStart, 0, N * N))

(* ------------------------------ the search ----------------------------- *)
(* count_rec and solve_rec recurse once per placed digit.  The recursion   *)
(* is run here on an explicit stack of activation records: a frame holds   *)
(* the locals of one activation that has entered its while loop (ch.r,     *)
(* ch.c, the candidates not yet tried, total, lim) and, for the frame      *)
(* condition, the Board and Masks the activation was entered with.         *)
(* mode is the position of the activation on top: "call" (at its entry),   *)
(* "loop" (at the test of while(cand)), "ret" (the call it made has just   *)
(* returned val), "done" (the outermost activation has returned val).      *)

any_empty(b) == \E r \in Idx : \E c \in Idx : b[r][c] = 0

Top(stack) == stack[Len(stack)]
Pop(stack) == SubSeq(stack, 1, Len(stack) - 1)
SetTop(stack, f) == [stack EXCEPT ![Len(stack)] = f]

\* entry of count_rec(bb, mm, lim) or solve_rec(bb, mm), up to the while loop
search_choice(S, ch, dead) ==
    IF ~ch.ok THEN [S EXCEPT !.mode = "ret", !.val = dead]
    ELSE [S EXCEPT !.mode = "loop",
                   !.stack = Append(@, [r |-> ch.r, c |-> ch.c, cand |-> ch.cand,
                                        total |-> 0, lim |-> S.lim,
                                        b |-> S.b, m |-> S.m])]

search_call(S, full, dead) ==
    IF ~any_empty(S.b) THEN [S EXCEPT !.mode = "ret", !.val = full]
    ELSE search_choice(S, find_best_cell(S.b, S.m), dead)

\* the activation on top returns x: the frame is popped, and the frame
\* condition records whether Board and Masks are as the activation found them
search_return(S, x) ==
    [S EXCEPT !.mode = "ret", !.val = x, !.stack = Pop(@),
              !.undone = @ /\ S.b = Top(S.stack).b /\ S.m = Top(S.stack).m]

\* count_step, stopping only once the total has passed the limit (> for >=)
count_step_passes_limit(S) ==
    LET f == Top(S.stack)
    IN  CASE S.mode = "call" -> search_call(S, 1, 0)
          [] S.mode = "loop" ->
                IF f.cand = {} THEN search_return(S, f.total)
                ELSE LET bit == LowBit(f.cand)
                         v == lsb_index(bit) + 1
                         s == apply_set(S.b, S.m, f.r, f.c, v)
                     IN  [S EXCEPT !.mode = "call", !.b = s.b, !.m = s.m,
                                   !.lim = f.lim - f.total,
                                   !.stack = SetTop(@, [f EXCEPT !.cand = @ \ bit])]
          [] S.mode = "ret" ->
                IF S.stack = <<>> THEN [S EXCEPT !.mode = "done"]
                ELSE LET total == f.total + S.val
                         u == apply_clear(S.b, S.m, f.r, f.c)
                         S2 == [S EXCEPT !.b = u.b, !.m = u.m]
                     IN  IF total > f.lim THEN search_return(S2, total)
                         ELSE [S2 EXCEPT !.mode = "loop",
                                         !.stack = SetTop(@, [f EXCEPT !.total = total])]

count_step(S) ==
    LET f == Top(S.stack)
    IN  CASE S.mode = "call" -> search_call(S, 1, 0)
          [] S.mode = "loop" ->
                \* while(cand){ bit=cand&-cand; cand^=bit; v=lsb_index(bit)+1;
                \*   apply_set(bb,mm,ch.r,ch.c,v); count_rec(bb,mm,lim-total) ...
                IF f.cand = {} THEN search_return(S, f.total)
                ELSE LET bit == LowBit(f.cand)
                         v == lsb_index(bit) + 1
                         s == apply_set(S.b, S.m, f.r, f.c, v)
                     IN  [S EXCEPT !.mode = "call", !.b = s.b, !.m = s.m,
                                   !.lim = f.lim - f.total,
                                   !.stack = SetTop(@, [f EXCEPT !.cand = @ \ bit])]
          [] S.mode = "ret" ->
                \* ... total += (the value returned); apply_clear(bb,mm,ch.r,ch.c);
                \*   if(total>=lim) return total; }
                IF S.stack = <<>> THEN [S EXCEPT !.mode = "done"]
                ELSE LET total == f.total + S.val
                         u == apply_clear(S.b, S.m, f.r, f.c)
                         S2 == [S EXCEPT !.b = u.b, !.m = u.m]
                     IN  IF total >= f.lim THEN search_return(S2, total)
                         ELSE [S2 EXCEPT !.mode = "loop",
                                         !.stack = SetTop(@, [f EXCEPT !.total = total])]

\* solve_step, undoing the placement also when the recursive call succeeded
solve_step_always_undoes(S) ==
    LET f == Top(S.stack)
    IN  CASE S.mode = "call" -> search_call(S, TRUE, FALSE)
          [] S.mode = "loop" ->
                IF f.cand = {} THEN search_return(S, FALSE)
                ELSE LET bit == LowBit(f.cand)
                         v == lsb_index(bit) + 1
                         s == apply_set(S.b, S.m, f.r, f.c, v)
                     IN  [S EXCEPT !.mode = "call", !.b = s.b, !.m = s.m,
                                   !.stack = SetTop(@, [f EXCEPT !.cand = @ \ bit])]
          [] S.mode = "ret" ->
                IF S.stack = <<>> THEN [S EXCEPT !.mode = "done"]
                ELSE LET u == apply_clear(S.b, S.m, f.r, f.c)
                     IN  IF S.val THEN [S EXCEPT !.stack = Pop(@), !.b = u.b, !.m = u.m]
                         ELSE [S EXCEPT !.mode = "loop", !.b = u.b, !.m = u.m]

solve_step(S) ==
    LET f == Top(S.stack)
    IN  CASE S.mode = "call" -> search_call(S, TRUE, FALSE)
          [] S.mode = "loop" ->
                \* while(cand){ ...; apply_set(bb,mm,ch.r,ch.c,v); solve_rec(bb,mm) ...
                IF f.cand = {} THEN search_return(S, FALSE)
                ELSE LET bit == LowBit(f.cand)
                         v == lsb_index(bit) + 1
                         s == apply_set(S.b, S.m, f.r, f.c, v)
                     IN  [S EXCEPT !.mode = "call", !.b = s.b, !.m = s.m,
                                   !.stack = SetTop(@, [f EXCEPT !.cand = @ \ bit])]
          [] S.mode = "ret" ->
                \* ... if(solve_rec(bb,mm)) return true; apply_clear(bb,mm,ch.r,ch.c); }
                IF S.stack = <<>> THEN [S EXCEPT !.mode = "done"]
                ELSE IF S.val THEN [S EXCEPT !.stack = Pop(@)]
                ELSE LET u == apply_clear(S.b, S.m, f.r, f.c)
                     IN  [S EXCEPT !.mode = "loop", !.b = u.b, !.m = u.m]

\* at most n further steps of the search (the count is halved so that the
\* evaluation nests only logarithmically deep)
RECURSIVE count_steps(_, _)
count_steps_more(first, n) == IF first.mode = "done" THEN first ELSE count_steps(first, n)

count_steps(S, n) ==
    IF S.mode = "done" \/ n = 0 THEN S
    ELSE IF n = 1 THEN count_step(S)
    ELSE count_steps_more(count_steps(S, n \div 2), n - (n \div 2))

RECURSIVE solve_steps(_, _)
solve_steps_more(first, n) == IF first.mode = "done" THEN first ELSE solve_steps(first, n)

solve_steps(S, n) ==
    IF S.mode = "done" \/ n = 0 THEN S
    ELSE IF n = 1 THEN solve_step(S)
    ELSE solve_steps_more(solve_steps(S, n \div 2), n - (n \div 2))

\* the search run until the outermost activation returns: n steps, then 2n, ...
RECURSIVE count_run(_, _)
count_run_more(first, n) == IF first.mode = "done" THEN first ELSE count_run(first, n)

count_run(S, n) == count_run_more(count_steps(S, n), 2 * n)

RECURSIVE solve_run(_, _)
solve_run_more(first, n) == IF first.mode = "done" THEN first ELSE solve_run(first, n)

solve_run(S, n) == solve_run_more(solve_steps(S, n), 2 * n)

Entry(bb, mm, lim) ==
    [b |-> bb, m |-> mm, lim |-> lim, stack |-> <<>>, mode |-> "call", val |-> 0,
     undone |-> TRUE]

\* count_rec(bb, mm, lim): Board and Masks when it returns, the value it
\* returns, and undone: every activation returned with Board and Masks as
\* it found them
count_returned(S, bb, mm) ==
    [b |-> S.b, m |-> S.m, ret |-> S.val, undone |-> S.undone /\ S.b = bb /\ S.m = mm]

count_rec(bb, mm, lim) == count_returned(count_run(Entry(bb, mm, lim), 64), bb, mm)

\* Masks m; masks_init(&m,b); Board tmp=*b; return count_rec(&tmp,&m,limit);
count_solutions(b, limit) == count_rec(b, masks_init(b), limit).ret

\* solve_rec(bb, mm); undone: every activation that returned false returned
\* with Board and Masks as it found them
solve_returned(S, bb, mm) ==
    [b |-> S.b, m |-> S.m, ret |-> S.val,
     undone |-> S.undone /\ (S.val \/ (S.b = bb /\ S.m = mm))]

solve_rec(bb, mm) == solve_returned(solve_run(Entry(bb, mm, 0), 64), bb, mm)

solve_board(b) == solve_rec(b, masks_init(b))

(* --------------------------- the generator ----------------------------- *)

\* rand(): the C library's generator, external to sudoku.c.  It is modelled
\* by a linear congruential generator whose state srand sets; a call steps
\* the state and returns it.
rand(s) == (s * 75 + 74) % 65537

Swap(a, i, j) == [a EXCEPT ![i] = a[j], ![j] = a[i]]

\* one iteration of the loop of shuffle_array: j = rand()%(i+1); swap a[i], a[j]
shuffle_step(st, i) ==
    LET s2 == rand(st.seed)
        j == s2 % (i + 1)
    IN  [a |-> Swap(st.a, i, j), seed |-> s2]

\* the iterations i = hi, hi-1, ..., lo of that loop, in this order (the range
\* is halved so that the evaluation nests only logarithmically deep)
RECURSIVE shuffle_range(_, _, _)
shuffle_rest(upper, mid, lo) ==
    IF upper.seed >= 0 THEN shuffle_range(upper, mid, lo) ELSE upper

shuffle_range(st, hi, lo) ==
    IF hi < lo THEN st
    ELSE IF hi = lo THEN shuffle_step(st, hi)
    ELSE shuffle_rest(shuffle_range(st, hi, ((hi + lo) \div 2) + 1), (hi + lo) \div 2, lo)

\* for(int i=n-1;i>0;i--)
shuffle_array(a, n, s) == shuffle_range([a |-> a, seed |-> s], n - 1, 1)

\* base_complete without the shift of one column per band
base_complete_no_band_shift == Grid([r \in Idx |-> [c \in Idx |-> ((r * 3 + c) % 9) + 1]])

base_complete == Grid([r \in Idx |-> [c \in Idx |-> ((r * 3 + (r \div 3) + c) % 9) + 1]])

\* map[1..9] is the array &map[1] of nine entries that shuffle_array permutes
permute_digits(b, s) ==
    LET sh == shuffle_array(Tab([i \in 0 .. 8 |-> i + 1]), 9, s)
    IN  [b |-> Grid([r \in Idx |-> [c \in Idx |-> sh.a[b[r][c] - 1]]]), seed |-> sh.seed]

\* one band of shuffle_rows_within_bands
rows_of_band(b, band, s) ==
    LET sh == shuffle_array(Tab([i \in 0 .. 2 |-> band * 3 + i]), 3, s)
    IN  [b |-> Grid([r \in Idx |-> IF r \div 3 = band THEN b[sh.a[r % 3]] ELSE b[r]]),
         seed |-> sh.seed]

shuffle_rows_within_bands(b, s) ==
    LET b0 == rows_of_band(b, 0, s)
        b1 == rows_of_band(b0.b, 1, b0.seed)
    IN  rows_of_band(b1.b, 2, b1.seed)

\* one stack of shuffle_cols_within_stacks
cols_of_stack(b, stack, s) ==
    LET sh == shuffle_array(Tab([i \in 0 .. 2 |-> stack * 3 + i]), 3, s)
    IN  [b |-> Grid([r \in Idx |-> [c \in Idx |->
                   IF c \div 3 = stack THEN b[r][sh.a[c % 3]] ELSE b[r][c]]]),
         seed |-> sh.seed]

shuffle_cols_within_stacks(b, s) ==
    LET b0 == cols_of_stack(b, 0, s)
        b1 == cols_of_stack(b0.b, 1, b0.seed)
    IN  cols_of_stack(b1.b, 2, b1.seed)

shuffle_bands(b, s) ==
    LET sh == shuffle_array(Tab([i \in 0 .. 2 |-> i]), 3, s)
    IN  [b |-> Grid([r \in Idx |-> [c \in Idx |-> b[sh.a[r \div 3] * 3 + (r % 3)][c]]]),
         seed |-> sh.seed]

shuffle_stacks(b, s) ==
    LET sh == shuffle_array(Tab([i \in 0 .. 2 |-> i]), 3, s)
    IN  [b |-> Grid([r \in Idx |-> [c \in Idx |-> b[r][sh.a[c \div 3] * 3 + (c % 3)]]]),
         seed |-> sh.seed]

generate_complete(s) ==
    LET g1 == permute_digits(base_complete, s)
        g2 == shuffle_rows_within_bands(g1.b, g1.seed)
        g3 == shuffle_cols_within_stacks(g2.b, g2.seed)
        g4 == shuffle_bands(g3.b, g3.seed)
    IN  shuffle_stacks(g4.b, g4.seed)

(* ----------------------------- the carver ------------------------------ *)

DIFF_EASY == 0
DIFF_MEDIUM == 1
DIFF_HARD == 2
Difficulty == {DIFF_EASY, DIFF_MEDIUM, DIFF_HARD}

target_clues(d) ==
    CASE d = DIFF_EASY -> 45
      [] d = DIFF_MEDIUM -> 36
      [] d = DIFF_HARD -> 27
      [] OTHER -> 36

\* the state of make_puzzle on entry to its loop
carve_start(sol, d, s) ==
    LET sh == shuffle_array(Tab([i \in 0 .. (N * N - 1) |-> i]), N * N, s)
    IN  [puzzle |-> sol, target |-> target_clues(d), clues |-> N * N, cells |-> sh.a,
         attempts |-> 0, idx |-> 0, sols |-> 0, brk |-> FALSE, seed |-> sh.seed]

\* the loop condition of make_puzzle
carve_more(st) == st.idx < N * N /\ st.clues > st.target /\ ~st.brk

\* carve_tested, committing a removal whenever a completion is left (sols >= 1)
carve_tested_commits_ambiguous(st, n, p2, removed) ==
    [st EXCEPT !.sols = n,
               !.puzzle = IF n >= 1 THEN p2 ELSE @,
               !.clues = IF n >= 1 THEN @ - removed ELSE @,
               !.attempts = @ + 1,
               !.brk = st.attempts + 1 > 20000,
               !.idx = @ + 1]

\* the iteration from "int sols = count_solutions(&test, 2)" on, idx++ included:
\* n is sols, p2 the puzzle with the removal made, removed the local removed
carve_tested(st, n, p2, removed) ==
    [st EXCEPT !.sols = n,
               !.puzzle = IF n = 1 THEN p2 ELSE @,
               !.clues = IF n = 1 THEN @ - removed ELSE @,
               !.attempts = @ + 1,
               !.brk = st.attempts + 1 > 20000,
               !.idx = @ + 1]

\* one iteration of the loop of make_puzzle, idx++ included
carve_iter(st) ==
    LET i == st.cells[st.idx]
        r == i \div 9
        c == i % 9
        sr == 8 - r
        sc == 8 - c
        pair == ~(sr = r /\ sc = c)
    IN  IF st.puzzle[r][c] = 0 THEN [st EXCEPT !.idx = @ + 1]
        ELSE LET t1 == [st.puzzle EXCEPT ![r][c] = 0]
                 both == pair /\ t1[sr][sc] # 0
                 test == IF both THEN [t1 EXCEPT ![sr][sc] = 0] ELSE t1
                 p1 == [st.puzzle EXCEPT ![r][c] = 0]
                 p2 == IF pair THEN [p1 EXCEPT ![sr][sc] = 0] ELSE p1
             IN  carve_tested(st, count_solutions(test, 2), p2, IF both THEN 2 ELSE 1)

\* at most n further iterations of the loop (the count is halved so that
\* the evaluation nests only logarithmically deep)
RECURSIVE carve_run(_, _)
carve_rest(first, n) == IF carve_more(first) THEN carve_run(first, n) ELSE first

carve_run(st, n) ==
    IF n = 0 THEN st
    ELSE IF n = 1 THEN (IF carve_more(st) THEN carve_iter(st) ELSE st)
    ELSE carve_rest(carve_run(st, n \div 2), n - (n \div 2))

\* every iteration increments idx, so the loop runs at most N*N times
make_puzzle(sol, d, s) == carve_run(carve_start(sol, d, s), N * N)

Filled(b) == Cardinality({i \in 0 .. (N * N - 1) : b[i \div N][i % N] # 0})

(* ------------------------ the interactive session --------------------- *)

can_place(cur, fix, r, c, v) ==
    /\ fix[r][c] = 0
    /\ \A i \in Idx : cur[r][i] # v /\ cur[i][c] # v
    /\ \A dr \in 0 .. 2 : \A dc \in 0 .. 2 : cur[(r \div 3) * 3 + dr][(c \div 3) * 3 + dc] # v

is_complete_and_correct(cur) ==
    \A r \in Idx : \A c \in Idx :
        LET v == cur[r][c]
        IN  /\ v >= 1 /\ v <= 9
            /\ \A i \in Idx : /\ (i # c => cur[r][i] # v)
                              /\ (i # r => cur[i][c] # v)
            /\ \A dr \in 0 .. 2 : \A dc \in 0 .. 2 :
                  LET rr == (r \div 3) * 3 + dr
                      cc == (c \div 3) * 3 + dc
                  IN  (rr = r /\ cc = c) \/ cur[rr][cc] # v

\* main between make_puzzle and the first prompt: the safety checks, and the
\* boards and the random source as they leave them
main_boards(sol, puz, s) ==
    [solution |-> sol, puzzle |-> puz, current |-> puz, fixed |-> puz, seed |-> s]

\* if(solve_board(&s2)) solution=s2; else generate_complete(&solution);
main_resolve(s2, g, puz, s) ==
    IF s2.ret THEN main_boards(s2.b, puz, s) ELSE main_boards(g.b, puz, g.seed)

\* Board tmp=puzzle; if(count_solutions(&tmp,2)!=1){ Board s2=puzzle; ... }
main_unique(sol, puz, s) ==
    IF count_solutions(puz, 2) # 1
    THEN main_resolve(solve_board(puz), generate_complete(s), puz, s)
    ELSE main_boards(sol, puz, s)

main_carved(sol, p) == main_unique(sol, p.puzzle, p.seed)

\* generate_complete(&solution); make_puzzle(&solution, &puzzle, diff);
main_regenerate(g, d) == main_carved(g.b, make_puzzle(g.b, d, g.seed))

\* if(!is_legal(&puzzle)){ ...regenerate... } and then the uniqueness check
main_safety(sol, puz, d, s) ==
    IF ~is_legal(puz) THEN main_regenerate(generate_complete(s), d)
    ELSE main_unique(sol, puz, s)

(* ------------------------------ the state ------------------------------ *)

VARIABLES
    pc,        \* where the program is
    seed,      \* the state of the random source
    solution,  \* main's Board solution
    diff,      \* main's Difficulty diff
    mp,        \* the locals of make_puzzle, the puzzle it carves included
    puzzle,    \* main's Board puzzle
    current,   \* main's Board current
    fixed,     \* main's Board fixed
    msg,       \* what the check command printed last
    b0,        \* a search or placement: the Board as the caller passed it
    m0,        \* ... and the Masks at entry
    b,         \* ... the Board the call works on
    m,         \* ... its Masks
    arg,       \* ... the other arguments of the call
    ret        \* ... what the call returned

vars == <<pc, seed, solution, diff, mp, puzzle, current, fixed, msg, b0, m0, b, m, arg, ret>>
genVars == <<seed, solution>>
carveVars == <<diff, mp>>
gameVars == <<puzzle, current, fixed, msg>>
callVars == <<b0, m0, b, m, arg, ret>>

ZeroBoard == Grid([r \in Idx |-> [c \in Idx |-> 0]])
ZeroMasks == masks_init(ZeroBoard)
NoFrame == [puzzle |-> ZeroBoard, target |-> 0, clues |-> 0, cells |-> <<>>,
            attempts |-> 0, idx |-> 0, sols |-> 0, brk |-> FALSE, seed |-> 0]

\* nothing generated, no session, no call in progress
NoGen == seed = 0 /\ solution = ZeroBoard
NoCarve == diff = DIFF_MEDIUM /\ mp = NoFrame
NoGame == puzzle = ZeroBoard /\ current = ZeroBoard /\ fixed = ZeroBoard /\ msg = ""
NoCall == b0 = ZeroBoard /\ m0 = ZeroMasks /\ b = ZeroBoard /\ m = ZeroMasks
          /\ arg = 0 /\ ret = [val |-> 0, undone |-> TRUE]

(* ------------------- generate_complete, step by step ------------------- *)

\* srand(seed) with one of the first MaxSeed+1 seeds
MaxSeed == 99

InitGen ==
    /\ pc = "main"
    /\ seed \in 0 .. MaxSeed
    /\ solution = ZeroBoard
    /\ NoCarve /\ NoGame /\ NoCall

BaseComplete ==
    /\ pc = "main"
    /\ solution' = base_complete
    /\ pc' = "base_complete"
    /\ UNCHANGED <<seed, carveVars, gameVars, callVars>>

GenStep(from, to, g) ==
    /\ pc = from
    /\ solution' = g.b
    /\ seed' = g.seed
    /\ pc' = to
    /\ UNCHANGED <<carveVars, gameVars, callVars>>

PermuteDigits == GenStep("base_complete", "permute_digits", permute_digits(solution, seed))
ShuffleRowsWithinBands ==
    GenStep("permute_digits", "shuffle_rows", shuffle_rows_within_bands(solution, seed))
ShuffleColsWithinStacks ==
    GenStep("shuffle_rows", "shuffle_cols", shuffle_cols_within_stacks(solution, seed))
ShuffleBands == GenStep("shuffle_cols", "shuffle_bands", shuffle_bands(solution, seed))
ShuffleStacks == GenStep("shuffle_bands", "generated", shuffle_stacks(solution, seed))

NextGen ==
    \/ BaseComplete
    \/ PermuteDigits
    \/ ShuffleRowsWithinBands
    \/ ShuffleColsWithinStacks
    \/ ShuffleBands
    \/ ShuffleStacks

SpecGen == InitGen /\ [][NextGen]_vars

\* C2: base_complete yields a grid with every cell in 1..9 on which is_legal
\* holds, each of the five shuffles keeps it so, and so the grid
\* generate_complete produces is one
C2_GeneratedGridValid == pc # "main" => (Complete(solution) /\ is_legal(solution))

\* generate_complete has returned a grid that the shuffles changed
C2_Witness == pc = "generated" /\ solution # base_complete /\ is_legal(solution)

(* ------------------------ make_puzzle, step by step -------------------- *)

\* the runs of main that srand seeded with 0 .. MaxCarveSeed
MaxCarveSeed == 2

InitCarve ==
    /\ pc = "generated"
    /\ \E s \in 0 .. MaxCarveSeed :
          LET g == generate_complete(s)
          IN  solution = g.b /\ seed = g.seed
    /\ diff \in Difficulty
    /\ mp = NoFrame
    /\ NoGame /\ NoCall

MakePuzzleEnter ==
    /\ pc = "generated"
    /\ mp' = carve_start(solution, diff, seed)
    /\ seed' = mp'.seed
    /\ pc' = "carving"
    /\ UNCHANGED <<solution, diff, gameVars, callVars>>

CarveIter ==
    /\ pc = "carving"
    /\ carve_more(mp)
    /\ mp' = carve_iter(mp)
    /\ UNCHANGED <<pc, genVars, diff, gameVars, callVars>>

MakePuzzleReturn ==
    /\ pc = "carving"
    /\ ~carve_more(mp)
    /\ puzzle' = mp.puzzle
    /\ pc' = "carved"
    /\ UNCHANGED <<genVars, carveVars, current, fixed, msg, callVars>>

NextCarve ==
    \/ MakePuzzleEnter
    \/ CarveIter
    \/ MakePuzzleReturn

SpecCarve == InitCarve /\ [][NextCarve]_vars

\* C1: the puzzle make_puzzle carves has exactly one completion as counted up
\* to 2, after every iteration of its loop and when it returns
C1_UniqueAfterEveryIteration ==
    /\ pc = "carving" => count_solutions(mp.puzzle, 2) = 1
    /\ pc = "carved" => count_solutions(puzzle, 2) = 1

\* an iteration has just discarded a removal that left two completions, after
\* earlier iterations committed removals
C1_Witness == pc = "carving" /\ mp.sols = 2 /\ mp.clues < N * N

\* C9: make_puzzle never returns a puzzle with fewer filled cells than the
\* target of the difficulty, and clues is the number of nonzero cells
C9_NeverBelowTarget ==
    /\ pc \in {"carving", "carved"} => mp.clues = Filled(mp.puzzle)
    /\ pc = "carved" => Filled(puzzle) >= target_clues(diff)

(* ------------------------- the search, call by call -------------------- *)

\* The boards the calls are given: the base pattern with the first NumHoles
\* cells of HoleCells each kept, emptied or overwritten, and the empty grid.
\* The first six cells hold 1,4,7 / 4,7,1 in two rows of one band: emptied
\* together they leave two completions, and the digit that overwrites a cell
\* is the one it has in the other completion.
NumHoles == 6

HoleCells == << <<0, 0, 4>>, <<0, 3, 7>>, <<0, 6, 1>>, <<1, 0, 1>>, <<1, 3, 4>>, <<1, 6, 7>>,
                <<2, 0, 1>>, <<2, 3, 4>>, <<2, 6, 7>> >>

HoleBoard(f, n) ==
    Grid([r \in Idx |-> [c \in Idx |->
        IF \E k \in 1 .. n : HoleCells[k][1] = r /\ HoleCells[k][2] = c
        THEN LET k == CHOOSE k \in 1 .. n : HoleCells[k][1] = r /\ HoleCells[k][2] = c
             IN  CASE f[k] = 0 -> base_complete[r][c]
                   [] f[k] = 1 -> 0
                   [] f[k] = 2 -> HoleCells[k][3]
        ELSE base_complete[r][c]]])

SearchBoards == {HoleBoard(f, NumHoles) : f \in [1 .. NumHoles -> 0 .. 2]} \cup {ZeroBoard}

\* the limits count_solutions is called with: 0 .. MaxLimit
MaxLimit == 2

InitSearch ==
    /\ pc = "input"
    /\ b0 \in SearchBoards
    /\ m0 = masks_init(b0)
    /\ b = b0
    /\ m = m0
    /\ arg = 0
    /\ ret = [val |-> 0, undone |-> TRUE]
    /\ NoGen /\ NoCarve /\ NoGame

\* the search has returned res: its Board, its Masks and what it returned
Returned(res) ==
    /\ b' = res.b
    /\ m' = res.m
    /\ ret' = [val |-> res.ret, undone |-> res.undone]

\* count_solutions(&b0, k): tmp is b, the Masks are m
CountSolutions(k) ==
    /\ pc = "input"
    /\ Returned(count_rec(b0, masks_init(b0), k))
    /\ arg' = k
    /\ pc' = "count_solutions"
    /\ UNCHANGED <<b0, m0, genVars, carveVars, gameVars>>

\* solve_board(&b): the caller's board b0 is the board the search works on
SolveBoard ==
    /\ pc = "input"
    /\ Returned(solve_board(b0))
    /\ pc' = "solve_board"
    /\ UNCHANGED <<b0, m0, arg, genVars, carveVars, gameVars>>

FindBestCell ==
    /\ pc = "input"
    /\ ret' = find_best_cell(b0, m0)
    /\ pc' = "find_best_cell"
    /\ UNCHANGED <<b0, m0, b, m, arg, genVars, carveVars, gameVars>>

NextSearch ==
    \/ \E k \in 0 .. MaxLimit : CountSolutions(k)
    \/ SolveBoard
    \/ FindBestCell

SpecSearch == InitSearch /\ [][NextSearch]_vars

(* the completions of a board, by plain enumeration (no masks, no MRV) *)

Fits(g, r, c, v) ==
    /\ \A i \in Idx : g[r][i] # v /\ g[i][c] # v
    /\ \A i \in Idx : \A j \in Idx : box_index(i, j) = box_index(r, c) => g[i][j] # v

\* every complete grid without a repeated digit that agrees with g on the
\* nonzero cells of g, for a g without a repeated digit
RECURSIVE Completions(_)
Completions(g) ==
    IF ~any_empty(g) THEN {g}
    ELSE LET i == CHOOSE i \in 0 .. (N * N - 1) :
                     /\ g[i \div N][i % N] = 0
                     /\ \A j \in 0 .. (i - 1) : g[j \div N][j % N] # 0
             r == i \div N
             c == i % N
         IN  UNION {Completions([g EXCEPT ![r][c] = v]) : v \in {v \in 1 .. 9 : Fits(g, r, c, v)}}

Min(x, y) == IF x <= y THEN x ELSE y

\* complete grids without a repeated digit that are known apart from the search
KnownGrids ==
    {g \in {base_complete} \cup {generate_complete(s).b : s \in 0 .. MaxLimit} :
        Complete(g) /\ is_legal(g)}

\* C3: count_solutions(b, k) is in 0 .. k for every k >= 0
C3_WithinLimit == pc = "count_solutions" => ret.val \in 0 .. arg

\* C4: for a legal board and a limit k >= 1, count_solutions returns the number
\* of completions if that is below k and k otherwise; the empty grid, which has
\* more than k completions, gives k
C4_BoundedCount ==
    (pc = "count_solutions" /\ arg >= 1 /\ is_legal(b0)) =>
        IF b0 = ZeroBoard
        THEN Cardinality(KnownGrids) >= arg /\ ret.val = arg
        ELSE ret.val = Min(Cardinality(Completions(b0)), arg)

\* a board with two completions was counted with limit 1: the count stopped early
C4_Witness ==
    /\ pc = "count_solutions" /\ arg = 1 /\ is_legal(b0) /\ b0 # ZeroBoard
    /\ Cardinality(Completions(b0)) = 2 /\ ret.val = 1

\* C5: on a legal board with exactly one completion S solve_board returns true
\* and leaves S in the board; on a legal board with none it returns false
C5_SolveUnique ==
    (pc = "solve_board" /\ is_legal(b0) /\ b0 # ZeroBoard) =>
        LET S == Completions(b0)
        IN  /\ Cardinality(S) = 1 => (ret.val /\ b \in S)
            /\ S = {} => ~ret.val

\* a board with empty cells and exactly one completion has been solved
C5_Witness ==
    /\ pc = "solve_board" /\ is_legal(b0) /\ b0 # ZeroBoard /\ any_empty(b0)
    /\ Cardinality(Completions(b0)) = 1 /\ ret.val

\* the cell i of the row-major scan is empty and has no candidate / one candidate
DeadCell(g, mm, i) == g[i \div N][i % N] = 0 /\ candidates_mask(mm, i \div N, i % N) = {}
SingleCell(g, mm, i) ==
    g[i \div N][i % N] = 0 /\ popcount9(candidates_mask(mm, i \div N, i % N)) = 1

\* C7 as stated: find_best_cell fails whenever some empty cell has no candidate
C7_AnyDeadCellFails ==
    (pc = "find_best_cell" /\ \E i \in 0 .. (N * N - 1) : DeadCell(b0, m0, i)) => ~ret.ok

\* C7, amended: find_best_cell fails iff no cell is empty or an empty cell has no
\* candidate and no empty cell before it in row-major order has exactly one
C7_FirstDeadCellFails ==
    pc = "find_best_cell" =>
        (~ret.ok <=>
            \/ ~any_empty(b0)
            \/ \E i \in 0 .. (N * N - 1) :
                  /\ DeadCell(b0, m0, i)
                  /\ \A j \in 0 .. (i - 1) : ~SingleCell(b0, m0, j))

\* find_best_cell failed on a board whose first empty cell with fewer than two
\* candidates has none, though a later cell has exactly one
C7_Witness ==
    /\ pc = "find_best_cell" /\ ~ret.ok
    /\ \E i \in 0 .. (N * N - 1) :
          /\ DeadCell(b0, m0, i)
          /\ \E j \in (i + 1) .. (N * N - 1) : SingleCell(b0, m0, j)

\* C8: when count_rec returns, and when solve_rec returns false, Board and Masks
\* are as at entry to that call; count_solutions leaves the caller's board alone
\* and a failed solve_board leaves it unchanged
C8_SearchUndoesItself ==
    /\ pc = "count_solutions" => (ret.undone /\ b = b0 /\ m = m0)
    /\ (pc = "solve_board" /\ ~ret.val) => (ret.undone /\ b = b0 /\ m = m0)

\* a count that placed digits and stopped at its limit before trying every
\* candidate has returned
C8_Witness ==
    /\ pc = "count_solutions" /\ arg = 1 /\ ret.val = 1 /\ any_empty(b0)
    /\ ret.undone /\ b = b0

(* -------------------- apply_set followed by apply_clear ---------------- *)

\* the boards: the base pattern with the first NumMaskHoles cells of HoleCells
\* each kept, emptied or overwritten, with the masks masks_init gives them
NumMaskHoles == 3

InitMask ==
    /\ pc = "input"
    /\ b0 \in {HoleBoard(f, NumMaskHoles) : f \in [1 .. NumMaskHoles -> 0 .. 2]}
    /\ m0 = masks_init(b0)
    /\ b = b0
    /\ m = m0
    /\ arg = <<0, 0, 0>>
    /\ ret = [val |-> 0, undone |-> TRUE]
    /\ NoGen /\ NoCarve /\ NoGame

\* apply_set(&b, &m, r, c, v) on an empty cell
ApplySet(r, c, v) ==
    /\ pc = "input"
    /\ b[r][c] = 0
    /\ LET s == apply_set(b, m, r, c, v)
       IN  b' = s.b /\ m' = s.m
    /\ arg' = <<r, c, v>>
    /\ pc' = "apply_set"
    /\ UNCHANGED <<b0, m0, ret, genVars, carveVars, gameVars>>

\* apply_clear(&b, &m, r, c) on the cell just set
ApplyClear ==
    /\ pc = "apply_set"
    /\ LET u == apply_clear(b, m, arg[1], arg[2])
       IN  b' = u.b /\ m' = u.m
    /\ pc' = "apply_clear"
    /\ UNCHANGED <<b0, m0, arg, ret, genVars, carveVars, gameVars>>

NextMask ==
    \/ \E r \in Idx : \E c \in Idx : \E v \in 1 .. 9 : ApplySet(r, c, v)
    \/ ApplyClear

SpecMask == InitMask /\ [][NextMask]_vars

\* C6 as stated: for every empty cell and every digit v in 1..9, apply_set then
\* apply_clear restores every row, column and box mask and leaves the cell empty
C6_RoundTripEveryDigit ==
    pc = "apply_clear" => (m = m0 /\ b[arg[1]][arg[2]] = 0)

\* C6, amended: the masks are restored when v is a candidate of the cell, i.e.
\* bit v-1 is in none of the cell's row, column and box masks; the cell is left
\* empty for every v
C6_RoundTripCandidate ==
    pc = "apply_clear" =>
        /\ b = b0
        /\ Bit(arg[3]) \subseteq candidates_mask(m0, arg[1], arg[2]) => m = m0

\* a candidate digit has been set and cleared again
C6_Witness ==
    /\ pc = "apply_clear"
    /\ Bit(arg[3]) \subseteq candidates_mask(m0, arg[1], arg[2])
    /\ m = m0

(* ------------------------ the interactive session --------------------- *)

\* the runs of main that srand seeded with 0 .. MaxGameSeed
MaxGameSeed == 0

\* The cells the commands name: the first NumCmdCells empty cells of the puzzle
\* in row-major order, and its first given cell.
NumCmdCells == 2

CmdCells(puz) ==
    LET empty == {i \in 0 .. (N * N - 1) : puz[i \div N][i % N] = 0}
        given == {i \in 0 .. (N * N - 1) : puz[i \div N][i % N] # 0}
    IN  {i \in empty : Cardinality({j \in empty : j < i}) < NumCmdCells}
        \cup {i \in given : \A j \in given : i <= j}

\* main after srand and prompt_difficulty
InitGame ==
    /\ pc = "main"
    /\ seed \in 0 .. MaxGameSeed
    /\ diff \in Difficulty
    /\ solution = ZeroBoard
    /\ mp = NoFrame
    /\ NoGame /\ NoCall

\* main from the return of make_puzzle up to its first prompt
MainBoards(g) ==
    /\ solution' = g.solution
    /\ puzzle' = g.puzzle
    /\ current' = g.current
    /\ fixed' = g.fixed
    /\ seed' = g.seed

MainSafety ==
    /\ pc = "carved"
    /\ MainBoards(main_safety(solution, puzzle, diff, seed))
    /\ pc' = "prompt"
    /\ UNCHANGED <<carveVars, msg, callVars>>

\* "set r c v" with r, c in 1..9 and v in 1..9 (r, c here count from 0)
CmdSet(r, c, v) ==
    /\ pc = "prompt"
    /\ IF ~can_place(current, fixed, r, c, v)
       THEN /\ msg' = "Illegal move (conflict or fixed cell)."
            /\ UNCHANGED current
       ELSE /\ current' = [current EXCEPT ![r][c] = v]
            /\ msg' = IF is_complete_and_correct(current') THEN "Solved!" ELSE ""
    /\ UNCHANGED <<pc, genVars, carveVars, puzzle, fixed, callVars>>

\* "clear r c"
CmdClear(r, c) ==
    /\ pc = "prompt"
    /\ IF fixed[r][c] # 0
       THEN /\ msg' = "That cell is a given; cannot clear."
            /\ UNCHANGED current
       ELSE /\ current' = [current EXCEPT ![r][c] = 0]
            /\ msg' = ""
    /\ UNCHANGED <<pc, genVars, carveVars, puzzle, fixed, callVars>>

\* "hint r c", for one of the cells the commands name
Hinted(s) ==
    \E i \in CmdCells(puzzle) :
        LET r == i \div N
            c == i % N
            v == s.b[r][c]
        IN  IF fixed[r][c] # 0
            THEN msg' = "That cell is a given." /\ UNCHANGED current
            ELSE IF ~s.ret
            THEN msg' = "No solution found (puzzle invalid)." /\ UNCHANGED current
            ELSE IF v = 0
            THEN msg' = "No hint available." /\ UNCHANGED current
            ELSE msg' = "Hint" /\ current' = [current EXCEPT ![r][c] = v]

CmdHint ==
    /\ pc = "prompt"
    /\ Hinted(solve_board(puzzle))
    /\ UNCHANGED <<pc, genVars, carveVars, puzzle, fixed, callVars>>

Solved(s) ==
    IF ~s.ret
    THEN msg' = "No solution from current state" /\ UNCHANGED current
    ELSE msg' = "Solution:" /\ current' = s.b

\* "solve"
CmdSolve ==
    /\ pc = "prompt"
    /\ Solved(solve_board(current))
    /\ UNCHANGED <<pc, genVars, carveVars, puzzle, fixed, callVars>>

\* "restart"
CmdRestart ==
    /\ pc = "prompt"
    /\ current' = puzzle
    /\ msg' = "Restarted."
    /\ UNCHANGED <<pc, genVars, carveVars, puzzle, fixed, callVars>>

\* "check"
CmdCheck ==
    /\ pc = "prompt"
    /\ msg' = IF ~is_legal(current) THEN "There are rule violations."
              ELSE IF is_complete_and_correct(current)
              THEN "Looks complete and correct. Nice!"
              ELSE "So far so good. No violations detected."
    /\ UNCHANGED <<pc, genVars, carveVars, puzzle, current, fixed, callVars>>

NextGame ==
    \/ NextGen
    \/ NextCarve
    \/ MainSafety
    \/ \E i \in CmdCells(puzzle) : \E v \in 1 .. 9 : CmdSet(i \div N, i % N, v)
    \/ \E i \in CmdCells(puzzle) : CmdClear(i \div N, i % N)
    \/ CmdHint
    \/ CmdSolve
    \/ CmdRestart
    \/ CmdCheck

SpecGame == InitGame /\ [][NextGame]_vars

\* C10: in the session, after any sequence of commands, current holds no rule
\* violation
C10_CurrentAlwaysLegal == pc = "prompt" => is_legal(current)

====
